---------------------------- MODULE Spec2Model ----------------------------
(***************************************************************************)
(* WatchHer desktop application (src/src/apps/watchher_desktop.py):        *)
(* the aggregation core of WatchHerDesktopApp.  The risk-zone map, the     *)
(* bounded event history and the cumulative statistics are fields of one   *)
(* application object, written by capture/processing worker threads and    *)
(* read by handlers that run on the Tk main-loop thread.                   *)
(*                                                                         *)
(* Seven specifications are given:                                         *)
(*   Spec            the program: Tk handlers and worker threads,          *)
(*                   interleaved at the granularity of their accesses to   *)
(*                   the shared fields;                                    *)
(*   SpecAggregator  update_risk_zones and clear_heatmap applied one call  *)
(*                   after the other to inputs drawn from bounded sets;    *)
(*   SpecViews       the same calls with update_heatmap and                *)
(*                   export_heatmap on what they leave;                    *)
(*   SpecSession     the program with one session, the "Update Heatmap"    *)
(*                   button and the exported document;                     *)
(*   SpecGradient    update_heatmap on maps whose scores lie around the    *)
(*                   thresholds of the colour gradient;                    *)
(*   SpecSource      one session with its frame source followed: a camera, *)
(*                   or a video file and the position in it;               *)
(*   SpecQueue       one session with Tk's timer handlers and the widgets  *)
(*                   they write.                                           *)
(***************************************************************************)
EXTENDS Integers, Sequences, FiniteSets, TLC

(***************************************************************************)
(* Program constants.                                                      *)
(***************************************************************************)
heatmap_grid_size == 50

ProcW == 640

ProcH == 480

DispW == 800

DispH == 600

(***************************************************************************)
(* Bounds of the model.                                                    *)
(***************************************************************************)
\* capacity of risk_history: deque(maxlen=1000) in the program, scaled down
MaxHistory == 2

\* calls of update_risk_zones in a behaviour of SpecAggregator
MaxCalls == 3

\* frames read by all workers together in a behaviour of Spec
MaxFrames == 2

\* worker threads created in a behaviour of Spec
MaxWorkers == 2

(***************************************************************************)
(* Values supplied by the perception service.                              *)
(***************************************************************************)
Levels == {"SAFE", "LOW", "MODERATE", "HIGH", "CRITICAL"}

\* the key 'overall_threat_level' may be missing from the assessment
NoLevel == "absent"

BoxA == <<100, 100, 140, 140>>

BoxB == <<600, 400, 630, 470>>

\* boxes the service may report that lie outside the 640x480 frame
BoxC == <<-61, 100, -21, 140>>

BoxD == <<820, 100, 860, 140>>

Person(b, g, h) == [bbox |-> b, gender |-> g, has_harmful_object |-> h]

Assessment(l, s, d, x, t) ==
    [lone_women |-> l, surrounded_women |-> s, women_in_danger |-> d,
     distress_signals |-> x, overall_threat_level |-> t]

\* what analyze_frame returns for the frames of the model: the detections
\* (boxes in processing-resolution pixels) and the safety assessment
FrameSamples ==
    << [people |-> << Person(BoxA, "man", FALSE), Person(BoxA, "woman", FALSE),
                      Person(BoxA, "woman", TRUE) >>,
        sa |-> Assessment(1, 0, 0, 0, "LOW")],
       [people |-> << >>,
        sa |-> Assessment(0, 0, 1, 1, "CRITICAL")],
       [people |-> << Person(BoxB, "woman", FALSE) >>,
        sa |-> Assessment(0, 1, 0, 0, "HIGH")],
       [people |-> << Person(BoxA, "man", FALSE) >>,
        sa |-> Assessment(0, 0, 0, 0, NoLevel)],
       [people |-> << Person(BoxB, "man", TRUE) >>,
        sa |-> Assessment(0, 0, 0, 2, "MODERATE")],
       [people |-> << >>,
        sa |-> Assessment(0, 0, 0, 0, "SAFE")],
       [people |-> << Person(BoxC, "woman", FALSE) >>,
        sa |-> Assessment(1, 0, 0, 0, "MODERATE")],
       [people |-> << Person(BoxD, "man", FALSE) >>,
        sa |-> Assessment(0, 0, 0, 0, "LOW")] >>

\* the frames given to the calls of SpecAggregator
AggFrames == 1 .. 6

\* the frames given to the calls of SpecViews
ViewFrames == {1, 3, 7, 8}

\* frame_shape[:2] as (h, w)
Shapes == { <<ProcH, ProcW>>, <<DispH, DispW>> }

(***************************************************************************)
(* process_frame, lines 406-420: int(bbox[i] * scale).                     *)
(***************************************************************************)
\* int(v * (num / den)): Python's int() truncates towards zero
ScaleCoord(v, num, den) ==
    IF v >= 0 THEN (v * num) \div den ELSE -(((-v) * num) \div den)

ScaleBBox(b) ==
    << ScaleCoord(b[1], DispW, ProcW), ScaleCoord(b[2], DispH, ProcH),
       ScaleCoord(b[3], DispW, ProcW), ScaleCoord(b[4], DispH, ProcH) >>

ScalePeople(people) ==
    [i \in 1..Len(people) |-> [people[i] EXCEPT !.bbox = ScaleBBox(@)]]

(***************************************************************************)
(* update_risk_zones, lines 512-558.                                       *)
(***************************************************************************)
EmptyMap == [c \in {} |-> 0]

\* defaultdict(int): a missing key reads as 0
Get(z, c) == IF c \in DOMAIN z THEN z[c] ELSE 0

Put(z, c, v) == [k \in DOMAIN z \cup {c} |-> IF k = c THEN v ELSE z[k]]

\* Cleared that leaves the dict as it is
Cleared_Kept(z) == z

\* the dict after self.risk_zones.clear(), line 677
Cleared(z) == EmptyMap

GridCell(p) ==
    << ((p.bbox[1] + p.bbox[3]) \div 2) \div heatmap_grid_size,
       ((p.bbox[2] + p.bbox[4]) \div 2) \div heatmap_grid_size >>

\* RiskLevel without the base risk of line 527
RiskLevel_NoBase(p) ==
    (IF p.gender = "woman" THEN 2 ELSE 0)
    + (IF p.has_harmful_object THEN 10 ELSE 0)

RiskLevel(p) ==
    1 + (IF p.gender = "woman" THEN 2 ELSE 0)
      + (IF p.has_harmful_object THEN 10 ELSE 0)

\* AddRisk with = in place of +=
AddRisk_Overwrite(z, c, r) == Put(z, c, r)

\* self.risk_zones[key] += amount, run without interruption
AddRisk(z, c, r) == Put(z, c, Get(z, c) + r)

RECURSIVE AddPeople(_, _, _)
\* the loop of lines 517-537 from person i on
AddPeople(z, people, i) ==
    IF i > Len(people) THEN z
    ELSE AddPeople(AddRisk(z, GridCell(people[i]), RiskLevel(people[i])),
                   people, i + 1)

ThreatOf(sa) ==
    IF sa.overall_threat_level = NoLevel THEN "SAFE"
    ELSE sa.overall_threat_level

\* VisibleCells with ranges that include their upper end
VisibleCells_Inclusive(h, w) ==
    (0 .. (w \div heatmap_grid_size)) \X (0 .. (h \div heatmap_grid_size))

VisibleCells(h, w) ==
    (0 .. (w \div heatmap_grid_size) - 1) \X (0 .. (h \div heatmap_grid_size) - 1)

AmbientIncrement(threat) == IF threat = "CRITICAL" THEN 5 ELSE 2

\* lines 540-548: the two nested loops over the current view
AddAmbient(z, threat, h, w) ==
    IF threat \in {"HIGH", "CRITICAL"}
    THEN [c \in DOMAIN z \cup VisibleCells(h, w) |->
             IF c \in VisibleCells(h, w)
             THEN Get(z, c) + AmbientIncrement(threat)
             ELSE z[c]]
    ELSE z

WomenCount(people) ==
    Cardinality({i \in 1..Len(people) : people[i].gender = "woman"})

RiskEvent(people, sa, ts) ==
    [timestamp |-> ts, threat_level |-> ThreatOf(sa),
     women_count |-> WomenCount(people),
     safety_alerts |-> sa.lone_women + sa.surrounded_women + sa.women_in_danger]

\* HistoryAppend that refuses the new event when full
HistoryAppend_DropNewest(h, e) ==
    IF Len(h) >= MaxHistory THEN h ELSE Append(h, e)

\* deque(maxlen=MaxHistory).append
HistoryAppend(h, e) ==
    IF Len(h) >= MaxHistory THEN Append(Tail(h), e) ELSE Append(h, e)

(***************************************************************************)
(* update_heatmap, lines 560-607.  A colour "#rrggbb" is the sequence of   *)
(* its six hexadecimal digits.  normalized_risk is the quotient of two     *)
(* integers, risk / max_risk, and is kept as that pair: the comparisons    *)
(* and the int() of lines 587-597 are computed on the exact quotient.      *)
(***************************************************************************)
ViewportW == 20

ViewportH == 15

\* f"{n:02x}" for 0 <= n <= 255
Hex2(n) == << n \div 16, n % 16 >>

\* lines 587-597 for normalized_risk = risk / max_risk
Colour(risk, max_risk) ==
    IF 10 * risk < 3 * max_risk
    THEN Hex2((255 * 3 * risk) \div max_risk) \o << 15, 15, 0, 0 >>
    ELSE IF 10 * risk < 7 * max_risk
    THEN << 15, 15 >>
         \o Hex2((255 * (7 * max_risk - 10 * risk)) \div (4 * max_risk))
         \o << 0, 0 >>
    ELSE Hex2((255 * (13 * max_risk - 10 * risk)) \div (6 * max_risk))
         \o << 0, 0, 0, 0 >>

\* line 607
Stipple(risk, max_risk) == IF 5 * risk < max_risk THEN "gray25" ELSE ""

\* max(self.risk_zones.values()) of a non-empty map
MaxRisk(z) ==
    CHOOSE m \in {z[c] : c \in DOMAIN z} : \A c \in DOMAIN z : z[c] <= m

NoItems == [c \in {} |-> [fill |-> << >>, stipple |-> ""]]

\* the canvas before update_heatmap has run, lines 280-282
BlankCanvas ==
    [text |-> "", max_risk |-> << >>, cells |-> NoItems, error |-> ""]

\* the entries line 581 lets through
InWindow(z) == {c \in DOMAIN z : ~(c[1] >= ViewportW \/ c[2] >= ViewportH)}

\* lines 570-607 on a map that is not empty.  With max_risk = 0 the division
\* of line 585 raises for the first entry that is not skipped.
DrawCells(z, max_risk) ==
    IF max_risk = 0 /\ InWindow(z) # {}
    THEN [text |-> "", max_risk |-> << max_risk >>,
          cells |-> NoItems, error |-> "ZeroDivisionError"]
    ELSE [text |-> "Risk Level:", max_risk |-> << max_risk >>,
          cells |-> [c \in InWindow(z) |->
                        [fill |-> Colour(z[c], max_risk),
                         stipple |-> Stipple(z[c], max_risk)]],
          error |-> ""]

\* what the canvas holds when update_heatmap has run on the map z: the text
\* item, max_risk if it was computed, the rectangle of each cell drawn, and
\* the exception that ended the handler, if any
UpdateHeatmap(z) ==
    IF z = EmptyMap
    THEN [text |-> "No risk data available", max_risk |-> << >>,
          cells |-> NoItems, error |-> ""]
    ELSE CHOOSE canvas \in {DrawCells(z, m) : m \in {MaxRisk(z)}} : TRUE

(***************************************************************************)
(* export_heatmap, lines 631-655.  A string is the sequence of its         *)
(* characters.                                                             *)
(***************************************************************************)
DecimalDigits == << "0", "1", "2", "3", "4", "5", "6", "7", "8", "9" >>

RECURSIVE Digits(_)
\* str(n) for n >= 0
Digits(n) ==
    IF n < 10 THEN << DecimalDigits[n + 1] >>
    ELSE Append(Digits(n \div 10), DecimalDigits[(n % 10) + 1])

\* FormatInt without the sign
FormatInt_Unsigned(n) == IF n < 0 THEN Digits(-n) ELSE Digits(n)

\* str(n)
FormatInt(n) == IF n < 0 THEN << "-" >> \o Digits(-n) ELSE Digits(n)

\* f"{k[0]},{k[1]}", line 638
ZoneKey(k) == FormatInt(k[1]) \o << "," >> \o FormatInt(k[2])

\* a dict with the key strings `key` gives to the entries of z: one entry per
\* distinct string
Rekeyed(z, key) ==
    [s \in {key[k] : k \in DOMAIN z} |->
        z[CHOOSE k \in DOMAIN z : key[k] = s]]

\* the dict comprehension of line 638
ExportZones(z) ==
    CHOOSE d \in {Rekeyed(z, key) : key \in {[k \in DOMAIN z |-> ZoneKey(k)]}} :
        TRUE


(***************************************************************************)
(* State.                                                                  *)
(***************************************************************************)
VARIABLES
    \* fields of WatchHerDesktopApp (__init__, lines 42-68) and Tk widgets
    ai_ready,            \* self.ai_analyzer is set and is_ready()
    is_processing,
    start_btn,           \* state of the Start button: "normal" / "disabled"
    stop_btn,
    cap,                 \* self.cap: 0 for None, else the capture object
    cap_state,           \* per capture object: "none" / "open" / "released"
    source,              \* per capture object: what it reads, and where in it
    after_queue,         \* Tk's timer handlers: the commands of root.after(0, ...)
    widgets,             \* what the log, the labels and the video label show
    stats,               \* the five cumulative counters
    current_threat_level,
    risk_zones,
    risk_history,
    frames_processed,
    \* worker threads (webcam_worker / file_worker), by order of creation
    pc,                  \* position of each worker
    frame,               \* index in FrameSamples of the frame in progress
    idx,                 \* loop index inside update_statistics / update_risk_zones
    tmp,                 \* value read by the += in progress (0 when none is)
    \* the Tk main-loop thread
    ui_read,             \* the first read of the aggregates by a handler
    heatmap_canvas,      \* what self.heatmap_canvas holds
    export_file,         \* the document in the file of the last export saved
    current_status,      \* the text of the status line
    \* environment and history variables
    clock,               \* datetime.now(), as a logical time
    frames_read,         \* frames delivered by the frame sources
    calls,               \* calls of update_risk_zones made by SpecAggregator
    log,                 \* inputs of the calls of update_risk_zones since the last clear
    appended,            \* every event appended since the last clear
    ledger,              \* per cell, the contributions added since the last clear
    applied,             \* per aggregate, the number of frames applied to it
    stop_seen            \* workers that were alive when stop_monitoring ran

vars ==
    << ai_ready, is_processing, start_btn, stop_btn, cap, cap_state, source,
       after_queue, widgets, stats,
       current_threat_level, risk_zones, risk_history,
       frames_processed, pc, frame, idx, tmp, ui_read, heatmap_canvas,
       export_file, current_status, clock,
       frames_read, calls, log, appended, ledger, applied, stop_seen >>

uiVars == << ai_ready, is_processing, start_btn, stop_btn >>

capVars == << cap, cap_state, source >>

guiVars == << after_queue, widgets >>

workerVars == << pc, frame, idx, tmp >>

statVars == << stats, current_threat_level, frames_processed >>

tkVars == << heatmap_canvas, export_file, current_status >>

NoFile == [saved |-> FALSE]

Workers == 1 .. MaxWorkers

\* the counters in the order update_statistics adds to them
StatFields ==
    << "total_women_monitored", "lone_women_incidents",
       "surrounded_women_incidents", "distress_signals_detected",
       "total_safety_alerts" >>

NoRead == [handler |-> "none"]

\* Tk's timer queue: the number of the next "after#n" and the handlers
\* waiting, oldest first
NoTimers == [next |-> 0, timers |-> << >>]

\* the widgets as create_interface leaves them, lines 151-156, 225-245,
\* 263-269, and threat_level_var, line 68
InitialWidgets ==
    [log_text |-> << >>,
     threat_level_var |-> "SAFE",
     stat_labels |-> [f \in {StatFields[i] : i \in 1..Len(StatFields)} |-> 0],
     frames_label |-> 0,
     video_label |-> [image |-> "", text |-> "WatchHer Video Display"]]

\* a capture object of which the model does not follow what it reads
NoSource == [kind |-> "any"]

\* the fields other than risk_zones after __init__
InitFields ==
    /\ ai_ready = FALSE
    /\ is_processing = FALSE
    /\ start_btn = "normal"
    /\ stop_btn = "disabled"
    /\ cap = 0
    /\ cap_state = [w \in Workers |-> "none"]
    /\ source = [w \in Workers |-> NoSource]
    /\ after_queue = NoTimers
    /\ widgets = InitialWidgets
    /\ stats = [f \in {StatFields[i] : i \in 1..Len(StatFields)} |-> 0]
    /\ current_threat_level = "SAFE"
    /\ risk_history = << >>
    /\ frames_processed = 0
    /\ pc = [w \in Workers |-> "idle"]
    /\ frame = [w \in Workers |-> 0]
    /\ idx = [w \in Workers |-> 0]
    /\ tmp = [w \in Workers |-> 0]
    /\ ui_read = NoRead
    /\ heatmap_canvas = BlankCanvas
    /\ export_file = NoFile
    /\ current_status = "WatchHer System Ready"
    /\ clock = 0
    /\ frames_read = 0
    /\ calls = 0
    /\ log = << >>
    /\ appended = << >>
    /\ ledger = EmptyMap
    /\ applied = [stats |-> 0, zones |-> 0, history |-> 0, frames |-> 0]
    /\ stop_seen = {}

Init == InitFields /\ risk_zones = EmptyMap

(***************************************************************************)
(* SpecAggregator: update_risk_zones and clear_heatmap, call after call.   *)
(***************************************************************************)
RECURSIVE DetectionTotal(_, _, _)
\* the sum of the risk levels of the detections of people[i..] that fall in c
DetectionTotal(people, c, i) ==
    IF i > Len(people) THEN 0
    ELSE (IF GridCell(people[i]) = c THEN RiskLevel(people[i]) ELSE 0)
         + DetectionTotal(people, c, i + 1)

AmbientTotal(threat, h, w, c) ==
    IF threat \in {"HIGH", "CRITICAL"} /\ c \in VisibleCells(h, w)
    THEN AmbientIncrement(threat) ELSE 0

TouchedCells(people, threat, h, w) ==
    {GridCell(people[i]) : i \in 1..Len(people)}
    \cup (IF threat \in {"HIGH", "CRITICAL"} THEN VisibleCells(h, w) ELSE {})

\* the ledger after one more call: a sum per cell, in no particular order
LedgerAfter(l, people, threat, h, w) ==
    [c \in DOMAIN l \cup TouchedCells(people, threat, h, w) |->
        Get(l, c) + DetectionTotal(people, c, 1) + AmbientTotal(threat, h, w, c)]

\* update_risk_zones(people, safety_analysis, frame_shape), lines 512-548
UpdateRiskZones(z, people, sa, shape) ==
    AddAmbient(AddPeople(z, people, 1), ThreatOf(sa), shape[1], shape[2])

\* the detections as update_risk_zones receives them for a frame of this shape
PeopleAt(f, shape) ==
    IF shape = <<DispH, DispW>> THEN ScalePeople(FrameSamples[f].people)
    ELSE FrameSamples[f].people

\* one call of update_risk_zones on a frame of F with a shape of S
UpdateCall(F, S) ==
    /\ calls < MaxCalls
    /\ \E f \in F, shape \in S :
         LET people == PeopleAt(f, shape)
             sa == FrameSamples[f].sa
             ev == RiskEvent(people, sa, clock)
         IN /\ risk_zones' = UpdateRiskZones(risk_zones, people, sa, shape)
            /\ risk_history' = HistoryAppend(risk_history, ev)
            /\ appended' = Append(appended, ev)
            /\ ledger' = LedgerAfter(ledger, people, ThreatOf(sa), shape[1], shape[2])
            /\ log' = Append(log, [people |-> people, sa |-> sa, shape |-> shape])
    /\ calls' = calls + 1
    /\ clock' = clock + 1
    /\ UNCHANGED << uiVars, capVars, guiVars, statVars, workerVars, ui_read, tkVars,
                    frames_read, applied, stop_seen >>

AggUpdate == UpdateCall(AggFrames, Shapes)

\* clear_heatmap, lines 674-680, the question answered yes
AggClear ==
    /\ risk_zones # EmptyMap \/ risk_history # << >>
    /\ risk_zones' = Cleared(risk_zones)
    /\ risk_history' = << >>
    /\ appended' = << >>
    /\ ledger' = EmptyMap
    /\ log' = << >>
    /\ heatmap_canvas' = UpdateHeatmap(Cleared(risk_zones))
    /\ UNCHANGED << uiVars, capVars, guiVars, statVars, workerVars, ui_read,
                    clock, export_file, current_status, frames_read, calls,
                    applied, stop_seen >>

NextAggregator == AggUpdate \/ AggClear

SpecAggregator == Init /\ [][NextAggregator]_vars


(***************************************************************************)
(* Claims about the aggregator, checked under SpecAggregator.              *)
(***************************************************************************)
RECURSIVE AddPeopleBackwards(_, _, _)
\* the contributions of people[1..i], the last one first
AddPeopleBackwards(z, people, i) ==
    IF i < 1 THEN z
    ELSE AddPeopleBackwards(AddRisk(z, GridCell(people[i]), RiskLevel(people[i])),
                            people, i - 1)

RECURSIVE ReplayBackwards(_, _)
\* the calls l[i..] replayed on an empty map, the last call first, and in
\* each call the ambient broadcast before the detections
ReplayBackwards(l, i) ==
    IF i > Len(l) THEN EmptyMap
    ELSE AddPeopleBackwards(
             AddAmbient(ReplayBackwards(l, i + 1), ThreatOf(l[i].sa),
                        l[i].shape[1], l[i].shape[2]),
             l[i].people, Len(l[i].people))

\* C5: since the last clear the score of every cell is the sum of the
\* contributions added to it (the ledger is that sum, cell by cell), and the
\* same map results when the contributions are applied in another order.
C5_Additivity ==
    /\ risk_zones = ledger
    /\ risk_zones = ReplayBackwards(log, 1)

C5_Witness ==
    /\ Len(log) = 3
    /\ \E c \in DOMAIN risk_zones : risk_zones[c] = 24

IsCall == calls' = calls + 1

LastCall == log'[Len(log')]

\* the cell and the amount of a detection, as the claim states them
ClaimCell(p) ==
    << (p.bbox[1] + p.bbox[3]) \div (2 * heatmap_grid_size),
       (p.bbox[2] + p.bbox[4]) \div (2 * heatmap_grid_size) >>

ClaimAmount(p) ==
    1 + (IF p.gender = "woman" THEN 2 ELSE 0)
      + (IF p.has_harmful_object THEN 10 ELSE 0)

RECURSIVE ClaimDetections(_, _, _)
ClaimDetections(people, c, i) ==
    IF i > Len(people) THEN 0
    ELSE (IF ClaimCell(people[i]) = c THEN ClaimAmount(people[i]) ELSE 0)
         + ClaimDetections(people, c, i + 1)

\* C6: a call adds, for each detection, 1 + 2 (woman) + 10 (harmful object)
\* to the cell of the detection's centre and creates that cell if absent;
\* apart from the ambient broadcast nothing else is added.
C6_DetectionContribution ==
    [][IsCall =>
        LET people == LastCall.people
            h == LastCall.shape[1]
            w == LastCall.shape[2]
            t == ThreatOf(LastCall.sa)
        IN /\ \A i \in 1..Len(people) : ClaimCell(people[i]) \in DOMAIN risk_zones'
           /\ \A c \in DOMAIN risk_zones' :
                risk_zones'[c] - AmbientTotal(t, h, w, c)
                    = Get(risk_zones, c) + ClaimDetections(people, c, 1)]_vars

\* the worked example: 1 + 3 + 13 = 17 in one cell
C6_Witness ==
    /\ Len(log) = 1
    /\ Len(log[1].people) = 3
    /\ \E c \in DOMAIN risk_zones : risk_zones = [k \in {c} |-> 17]

\* membership in the grid extent of a frame of height h and width w, as the
\* claim states it
ClaimInExtent(h, w, c) ==
    /\ 0 <= c[1] /\ c[1] < w \div heatmap_grid_size
    /\ 0 <= c[2] /\ c[2] < h \div heatmap_grid_size

ClaimAmbient(t, h, w, c) ==
    IF ~ClaimInExtent(h, w, c) THEN 0
    ELSE IF t = "HIGH" THEN 2
    ELSE IF t = "CRITICAL" THEN 5
    ELSE 0

\* C7: on top of the detections, a call whose threat level is HIGH or CRITICAL
\* adds 2 or 5 to every cell of the frame's grid extent and to no other cell;
\* a call with any other threat level adds nothing.
C7_AmbientBroadcast ==
    [][IsCall =>
        LET people == LastCall.people
            h == LastCall.shape[1]
            w == LastCall.shape[2]
            t == ThreatOf(LastCall.sa)
        IN /\ DOMAIN risk_zones' =
                DOMAIN risk_zones
                \cup {GridCell(people[i]) : i \in 1..Len(people)}
                \cup (IF t \in {"HIGH", "CRITICAL"}
                      THEN (0 .. (w \div heatmap_grid_size) - 1)
                           \X (0 .. (h \div heatmap_grid_size) - 1)
                      ELSE {})
           /\ \A c \in DOMAIN risk_zones' :
                risk_zones'[c] - DetectionTotal(people, c, 1)
                    = Get(risk_zones, c) + ClaimAmbient(t, h, w, c)]_vars

\* a CRITICAL frame of 640x480 with no detection: +5 in exactly 108 cells
C7_Witness ==
    /\ Len(log) = 1
    /\ log[1].people = << >>
    /\ log[1].shape = <<480, 640>>
    /\ ThreatOf(log[1].sa) = "CRITICAL"
    /\ Cardinality(DOMAIN risk_zones) = 108
    /\ \A c \in DOMAIN risk_zones : risk_zones[c] = 5

Min(a, b) == IF a < b THEN a ELSE b

\* the last n elements of s
LastN(s, n) == [i \in 1..n |-> s[Len(s) - n + i]]

\* C8: the history never holds more than its capacity, and it holds the most
\* recent min(n, capacity) of the n events appended since the last clear,
\* oldest first.
C8_BoundedHistory ==
    /\ Len(risk_history) <= MaxHistory
    /\ risk_history = LastN(appended, Min(Len(appended), MaxHistory))

C8_Witness ==
    /\ Len(appended) > MaxHistory
    /\ Len(risk_history) = MaxHistory
    /\ risk_history[1] = appended[Len(appended) - MaxHistory + 1]


(***************************************************************************)
(* Spec: the Tk handlers.                                                  *)
(***************************************************************************)
ghostVars == << calls, log, ledger >>

aggVars == << risk_zones, risk_history, appended, clock >>

Alive == {w \in Workers : pc[w] \notin {"idle", "done"}}

Created == {w \in Workers : pc[w] # "idle"}

\* ai_init_worker, lines 75-81, and ai_initialization_complete, lines 86-89:
\* the analyzer becomes available
AiInitialized ==
    /\ ~ai_ready
    /\ ai_ready' = TRUE
    /\ current_status' = "AI System Ready - Select source and start monitoring"
    /\ UNCHANGED << is_processing, start_btn, stop_btn, capVars, guiVars, statVars,
                    aggVars, workerVars, ui_read, heatmap_canvas, export_file,
                    frames_read, ghostVars, applied, stop_seen >>

\* self.cap.release() on the object self.cap refers to, if any
Released(c) ==
    IF c = 0 THEN cap_state ELSE [cap_state EXCEPT ![c] = "released"]

\* threading.Thread(target=..., daemon=True).start(), lines 367-368 / 390-391
StartThread ==
    LET w == Cardinality(Created) + 1
    IN /\ pc' = [pc EXCEPT ![w] = "open"]
       /\ UNCHANGED << frame, idx, tmp >>

\* AiNotReady that lets every start through
AiNotReady_Never == FALSE

\* line 329: not self.ai_analyzer or not self.ai_analyzer.is_ready()
AiNotReady == ~ai_ready

\* start_monitoring, lines 327-347.  The Start button is clickable only while
\* its state is "normal"; source_var and file_path are what the user has
\* selected when clicking.  webcam_worker and file_worker differ in the
\* argument of VideoCapture and in what follows a read that gave no frame
\* (a sleep, a rewind), and are one kind of worker here.
StartMonitoring ==
    /\ start_btn = "normal"
    /\ \E source_var \in {"webcam", "file"}, file_path \in BOOLEAN :
         IF AiNotReady
         THEN \* lines 329-331
              UNCHANGED << is_processing, start_btn, stop_btn, capVars, guiVars,
                           workerVars, current_status, stop_seen >>
         ELSE IF source_var = "file" /\ ~file_path
         THEN \* lines 340-343: stop_monitoring() undoes lines 333-335
              /\ current_status' = "Monitoring stopped - Ready to resume"
              /\ is_processing' = FALSE
              /\ start_btn' = "normal"
              /\ stop_btn' = "disabled"
              /\ cap_state' = Released(cap)
              /\ stop_seen' = stop_seen \cup Alive
              /\ UNCHANGED << cap, source, guiVars, workerVars >>
         ELSE /\ Cardinality(Created) < MaxWorkers
              /\ current_status' = "Monitoring active - Analyzing for women's safety"
              /\ is_processing' = TRUE
              /\ start_btn' = "disabled"
              /\ stop_btn' = "normal"
              /\ StartThread
              /\ UNCHANGED << capVars, guiVars, stop_seen >>
    /\ UNCHANGED << ai_ready, statVars, aggVars, ui_read, heatmap_canvas,
                    export_file, frames_read, ghostVars, applied >>

\* stop_monitoring, lines 796-809
StopMonitoring ==
    /\ stop_btn = "normal"
    /\ is_processing' = FALSE
    /\ start_btn' = "normal"
    /\ stop_btn' = "disabled"
    /\ cap_state' = Released(cap)
    /\ stop_seen' = stop_seen \cup Alive
    /\ current_status' = "Monitoring stopped - Ready to resume"
    /\ UNCHANGED << ai_ready, cap, source, guiVars, statVars, aggVars,
                    workerVars, ui_read,
                    heatmap_canvas, export_file, frames_read, ghostVars,
                    applied >>

\* clear_heatmap, lines 674-680, the question answered yes
ClearHeatmap ==
    /\ risk_zones # EmptyMap \/ risk_history # << >>
    /\ risk_zones' = Cleared(risk_zones)
    /\ risk_history' = << >>
    /\ appended' = << >>
    /\ heatmap_canvas' = UpdateHeatmap(Cleared(risk_zones))
    /\ UNCHANGED << uiVars, capVars, guiVars, statVars, workerVars, ui_read, clock,
                    export_file, current_status, frames_read, ghostVars, applied,
                    stop_seen >>

FramePcs ==
    {"stats_load", "stats_store", "threat", "zones_load", "zones_store",
     "ambient", "history", "count_load", "count_store"}

\* worker w has written part of its frame's update and not yet all of it
InUpdate(w) ==
    /\ pc[w] \in FramePcs
    /\ ~(pc[w] \in {"stats_load", "stats_store"} /\ idx[w] = 1)

\* the document export_heatmap builds, lines 631-655, from the fields as they
\* are when it runs
ExportDocument ==
    [metadata |-> [total_frames |-> frames_processed,
                   grid_size |-> heatmap_grid_size],
     risk_zones |-> ExportZones(risk_zones),
     safety_statistics |->
        [women_monitored |-> stats["total_women_monitored"],
         safety_alerts |-> stats["total_safety_alerts"],
         lone_women_incidents |-> stats["lone_women_incidents"],
         surrounded_women_incidents |-> stats["surrounded_women_incidents"],
         distress_signals |-> stats["distress_signals_detected"]],
     risk_history |-> risk_history]

\* export_heatmap, lines 623-668, the file written.  The model follows the
\* first read of a behaviour and records which workers were then inside a
\* frame's update.
ExportHeatmap ==
    /\ risk_zones # EmptyMap
    /\ ui_read = NoRead
    /\ ui_read' = [handler |-> "export_heatmap",
                   total_frames |-> frames_processed,
                   events |-> Len(risk_history),
                   during |-> {w \in Workers : InUpdate(w)}]
    /\ UNCHANGED << uiVars, capVars, guiVars, statVars, aggVars, workerVars,
                    frames_read, ghostVars, tkVars, applied, stop_seen >>

\* ViewExport that empties the deque while it serialises the events
ViewExport_Drains ==
    /\ risk_zones # EmptyMap
    /\ ui_read = NoRead
    /\ \E result \in {"saved", "cancelled", "failed"} :
         /\ ui_read' = [handler |-> "export_heatmap",
                        during |-> {w \in Workers : InUpdate(w)},
                        result |-> result,
                        message |-> CASE result = "saved" -> "Success"
                                      [] result = "cancelled" -> ""
                                      [] result = "failed" -> "Error"]
         /\ export_file' = IF result = "saved"
                           THEN [saved |-> TRUE, document |-> ExportDocument]
                           ELSE export_file
    /\ risk_history' = << >>
    /\ UNCHANGED << uiVars, capVars, guiVars, statVars, risk_zones, appended, clock,
                    workerVars, heatmap_canvas, current_status, frames_read,
                    ghostVars, applied, stop_seen >>

\* export_heatmap, lines 623-672, on a map that is not empty, with what
\* follows the file dialog: the file is written, or the dialog is cancelled,
\* or writing raises and lines 670-672 report it
ViewExport ==
    /\ risk_zones # EmptyMap
    /\ ui_read = NoRead
    /\ \E result \in {"saved", "cancelled", "failed"} :
         /\ ui_read' = [handler |-> "export_heatmap",
                        during |-> {w \in Workers : InUpdate(w)},
                        result |-> result,
                        message |-> CASE result = "saved" -> "Success"
                                      [] result = "cancelled" -> ""
                                      [] result = "failed" -> "Error"]
         /\ export_file' = IF result = "saved"
                           THEN [saved |-> TRUE, document |-> ExportDocument]
                           ELSE export_file
    /\ UNCHANGED << uiVars, capVars, guiVars, statVars, aggVars, workerVars,
                    heatmap_canvas, current_status, frames_read, ghostVars,
                    applied, stop_seen >>

\* update_heatmap as the command of the "Update Heatmap" button, line 289
RefreshHeatmap ==
    /\ ui_read = NoRead
    /\ heatmap_canvas' = UpdateHeatmap(risk_zones)
    /\ ui_read' = [handler |-> "update_heatmap",
                   during |-> {w \in Workers : InUpdate(w)}]
    /\ UNCHANGED << uiVars, capVars, guiVars, statVars, aggVars, workerVars,
                    export_file, current_status, frames_read, ghostVars,
                    applied, stop_seen >>

RECURSIVE SumCells(_, _)
\* the scores of the cells S of z added up
SumCells(z, S) ==
    IF S = {} THEN 0
    ELSE LET c == CHOOSE k \in S : TRUE
         IN z[c] + SumCells(z, S \ {c})

RECURSIVE SumColumns(_, _)
\* the scores of the cells of z whose first coordinate is in X added up,
\* column after column
SumColumns(z, X) ==
    IF X = {} THEN 0
    ELSE LET x == CHOOSE k \in X : TRUE
         IN SumCells(z, {c \in DOMAIN z : c[1] = x}) + SumColumns(z, X \ {x})

\* sum(self.risk_zones.values()), line 700
SumValues(z) == SumColumns(z, {c[1] : c \in DOMAIN z})

\* HighRisk that counts a score of 10 too
HighRisk_Inclusive(r) == r >= 10

\* line 698: r > 10
HighRisk(r) == r > 10

\* 'risk_analysis', lines 697-701.  average_risk_level is the quotient of
\* two integers and is kept as the pair << dividend, divisor >>; the 0 of an
\* empty map is << 0, 1 >>.
RiskAnalysis(z) ==
    [high_risk_zones |-> Cardinality({c \in DOMAIN z : HighRisk(z[c])}),
     total_risk_zones |-> Cardinality(DOMAIN z),
     average_risk_level |->
        IF z # EmptyMap
        THEN << SumValues(z), Cardinality(DOMAIN z) >>
        ELSE << 0, 1 >>]

\* report_data, lines 685-702
ReportData ==
    [frames_processed |-> frames_processed,
     safety_statistics |->
        [women_monitored |-> stats["total_women_monitored"],
         total_safety_alerts |-> stats["total_safety_alerts"],
         lone_women_incidents |-> stats["lone_women_incidents"],
         surrounded_women_incidents |-> stats["surrounded_women_incidents"],
         distress_signals_detected |-> stats["distress_signals_detected"],
         current_threat_level |-> current_threat_level],
     risk_analysis |-> RiskAnalysis(risk_zones)]

\* generate_safety_report, lines 682-759: the report window is shown, or
\* building it raises and lines 757-759 report that
GenerateSafetyReport ==
    /\ ui_read = NoRead
    /\ \E result \in {"shown", "failed"} :
         ui_read' = IF result = "shown"
                    THEN [handler |-> "generate_safety_report",
                          during |-> {w \in Workers : InUpdate(w)},
                          result |-> result,
                          report |-> ReportData]
                    ELSE [handler |-> "generate_safety_report",
                          during |-> {w \in Workers : InUpdate(w)},
                          result |-> result,
                          message |-> "Error"]
    /\ UNCHANGED << uiVars, capVars, guiVars, statVars, aggVars, workerVars,
                    heatmap_canvas, export_file, current_status, frames_read,
                    ghostVars, applied, stop_seen >>

(***************************************************************************)
(* SpecViews: the heat map, the export and the report of the maps that     *)
(* calls of update_risk_zones build, the calls made as process_frame makes *)
(* them (boxes rescaled, the shape of the 800x600 frame).                  *)
(***************************************************************************)
ViewUpdate == UpdateCall(ViewFrames, {<<DispH, DispW>>})

NextViews ==
    ViewUpdate \/ AggClear \/ RefreshHeatmap \/ ViewExport
    \/ GenerateSafetyReport

SpecViews == Init /\ [][NextViews]_vars

(***************************************************************************)
(* SpecGradient: update_heatmap applied to maps in which two cells hold    *)
(* scores 2/10000 of the maximum apart, around 0.3 and 0.7 of the maximum. *)
(* Such scores take a long session to build; the fields other than         *)
(* risk_zones play no part in update_heatmap and are as __init__ left them.*)
(***************************************************************************)
GradientScores == (2950 .. 3049) \cup (6950 .. 7049)

GradientMap(k) ==
    [c \in {<<0, 0>>, <<1, 0>>, <<2, 0>>} |->
        CASE c = <<0, 0>> -> k
          [] c = <<1, 0>> -> k + 2
          [] c = <<2, 0>> -> 10000]

InitGradient ==
    /\ InitFields
    /\ risk_zones \in {GradientMap(k) : k \in GradientScores}

SpecGradient == InitGradient /\ [][RefreshHeatmap]_vars

(***************************************************************************)
(* Spec: the worker threads (webcam_worker, lines 351-365; file_worker,    *)
(* lines 372-388) and process_frame, lines 393-438.  A step is one access  *)
(* to a shared field; x += n is a read of x and, later, a write.           *)
(***************************************************************************)
\* the frames the sources of Spec deliver
SpecFrames == {3, 4}

People(w) == ScalePeople(FrameSamples[frame[w]].people)

Sa(w) == FrameSamples[frame[w]].sa

\* what update_statistics adds to each counter, lines 443-457
StatIncrement(f, people, sa) ==
    CASE f = "total_women_monitored" -> WomenCount(people)
      [] f = "lone_women_incidents" -> sa.lone_women
      [] f = "surrounded_women_incidents" -> sa.surrounded_women
      [] f = "distress_signals_detected" -> sa.distress_signals
      [] f = "total_safety_alerts" ->
            sa.lone_women + sa.surrounded_women + sa.women_in_danger
            + sa.distress_signals

Goto(w, p) == pc' = [pc EXCEPT ![w] = p]

\* AfterFailure when the exception ends the worker
AfterFailure_Escapes == "done"

\* where a worker is after lines 437-438 caught and logged an exception:
\* process_frame has returned and the loop goes on
AfterFailure == "check"

\* self.cap = cv2.VideoCapture(...), line 353 / 374
Open(w) ==
    /\ pc[w] = "open"
    /\ cap' = w
    /\ cap_state' = [cap_state EXCEPT ![w] = "open"]
    /\ Goto(w, "check")
    /\ UNCHANGED << uiVars, source, guiVars, statVars, aggVars, frame, idx, tmp,
                    ui_read, frames_read, ghostVars, tkVars, applied, stop_seen >>

\* while self.is_processing, line 357 / 376
Check(w) ==
    /\ pc[w] = "check"
    /\ Goto(w, IF is_processing THEN "read" ELSE "release")
    /\ UNCHANGED << uiVars, capVars, guiVars, statVars, aggVars, frame, idx, tmp,
                    ui_read, frames_read, ghostVars, tkVars, applied, stop_seen >>

\* self.cap.read() gave no frame, lines 358-361 / 377-381: the next iteration
ReadNothing(w) ==
    /\ pc[w] = "read"
    /\ Goto(w, "check")
    /\ UNCHANGED << uiVars, capVars, guiVars, statVars, aggVars, frame, idx, tmp,
                    ui_read, frames_read, ghostVars, tkVars, applied, stop_seen >>

\* self.cap.read() gave a frame and process_frame ran up to line 424:
\* analyze_frame returned sample f, or raised and line 438 logged it
ReadFrame(w) ==
    /\ pc[w] = "read"
    /\ cap_state[cap] = "open"
    /\ frames_read < MaxFrames
    /\ frames_read' = frames_read + 1
    /\ \/ /\ Goto(w, AfterFailure)
          /\ UNCHANGED << frame, idx >>
       \/ \E f \in SpecFrames :
            /\ frame' = [frame EXCEPT ![w] = f]
            /\ idx' = [idx EXCEPT ![w] = 1]
            /\ Goto(w, "stats_load")
    /\ UNCHANGED << uiVars, capVars, guiVars, statVars, aggVars, tmp,
                    ui_read, ghostVars, tkVars, applied, stop_seen >>

\* update_statistics, lines 444-457: the read of self.<counter> += n
StatsLoad(w) ==
    /\ pc[w] = "stats_load"
    /\ tmp' = [tmp EXCEPT ![w] = stats[StatFields[idx[w]]]]
    /\ Goto(w, "stats_store")
    /\ UNCHANGED << uiVars, capVars, guiVars, statVars, aggVars, frame, idx,
                    ui_read, frames_read, ghostVars, tkVars, applied, stop_seen >>

\* ... and its write
StatsStore(w) ==
    /\ pc[w] = "stats_store"
    /\ stats' = [stats EXCEPT ![StatFields[idx[w]]] =
                    tmp[w] + StatIncrement(StatFields[idx[w]], People(w), Sa(w))]
    /\ IF idx[w] < Len(StatFields)
       THEN /\ idx' = [idx EXCEPT ![w] = @ + 1]
            /\ Goto(w, "stats_load")
       ELSE /\ idx' = [idx EXCEPT ![w] = 1]
            /\ Goto(w, "threat")
    /\ tmp' = [tmp EXCEPT ![w] = 0]
    /\ UNCHANGED << uiVars, capVars, guiVars, current_threat_level, frames_processed,
                    aggVars, frame, ui_read, frames_read,
                    ghostVars, tkVars, applied, stop_seen >>

\* update_statistics, lines 460-473, and the argument of line 430.  The
\* worker thread calls into Tk (add_log, root.after) and reads the shape of
\* what draw_safety_overlay returned: either may raise, and line 438 logs it.
Threat(w) ==
    /\ pc[w] = "threat"
    /\ current_threat_level' = ThreatOf(Sa(w))
    /\ applied' = [applied EXCEPT !.stats = @ + 1]
    /\ \/ /\ Goto(w, IF Len(People(w)) > 0 THEN "zones_load" ELSE "ambient")
          /\ UNCHANGED << frame, idx >>
       \/ /\ Goto(w, AfterFailure)
          /\ frame' = [frame EXCEPT ![w] = 0]
          /\ idx' = [idx EXCEPT ![w] = 0]
    /\ UNCHANGED << uiVars, capVars, guiVars, stats, frames_processed, aggVars,
                    tmp, ui_read, frames_read, ghostVars, tkVars, stop_seen >>

\* line 537, self.risk_zones[(grid_x, grid_y)] += risk_level: the read; the
\* defaultdict inserts a missing key with 0
ZonesLoad(w) ==
    /\ pc[w] = "zones_load"
    /\ LET c == GridCell(People(w)[idx[w]])
       IN /\ tmp' = [tmp EXCEPT ![w] = Get(risk_zones, c)]
          /\ risk_zones' = Put(risk_zones, c, Get(risk_zones, c))
    /\ Goto(w, "zones_store")
    /\ UNCHANGED << uiVars, capVars, guiVars, statVars, risk_history, appended, clock,
                    frame, idx, ui_read, frames_read, ghostVars, tkVars,
                    applied, stop_seen >>

\* ... and the write
ZonesStore(w) ==
    /\ pc[w] = "zones_store"
    /\ LET p == People(w)[idx[w]]
       IN risk_zones' = Put(risk_zones, GridCell(p), tmp[w] + RiskLevel(p))
    /\ IF idx[w] < Len(People(w))
       THEN /\ idx' = [idx EXCEPT ![w] = @ + 1]
            /\ Goto(w, "zones_load")
       ELSE /\ idx' = [idx EXCEPT ![w] = 1]
            /\ Goto(w, "ambient")
    /\ tmp' = [tmp EXCEPT ![w] = 0]
    /\ UNCHANGED << uiVars, capVars, guiVars, statVars, risk_history, appended, clock,
                    frame, ui_read, frames_read, ghostVars, tkVars,
                    applied, stop_seen >>

\* lines 540-548 with frame_shape = display_frame.shape, the 800x600 frame of
\* line 407; the loops are taken as one step
Ambient(w) ==
    /\ pc[w] = "ambient"
    /\ risk_zones' = AddAmbient(risk_zones, ThreatOf(Sa(w)), DispH, DispW)
    /\ applied' = [applied EXCEPT !.zones = @ + 1]
    /\ Goto(w, "history")
    /\ UNCHANGED << uiVars, capVars, guiVars, statVars, risk_history, appended, clock,
                    frame, idx, tmp, ui_read, frames_read, ghostVars, tkVars,
                    stop_seen >>

\* lines 551-558, self.risk_history.append(...), then update_display, line 433
History(w) ==
    /\ pc[w] = "history"
    /\ LET ev == RiskEvent(People(w), Sa(w), clock)
       IN /\ risk_history' = HistoryAppend(risk_history, ev)
          /\ appended' = Append(appended, ev)
    /\ clock' = clock + 1
    /\ applied' = [applied EXCEPT !.history = @ + 1]
    /\ Goto(w, "count_load")
    /\ UNCHANGED << uiVars, capVars, guiVars, statVars, risk_zones, frame, idx,
                    tmp, ui_read, frames_read, ghostVars, tkVars, stop_seen >>

\* line 435, self.frames_processed += 1: the read
CountLoad(w) ==
    /\ pc[w] = "count_load"
    /\ tmp' = [tmp EXCEPT ![w] = frames_processed]
    /\ Goto(w, "count_store")
    /\ UNCHANGED << uiVars, capVars, guiVars, statVars, aggVars, frame, idx,
                    ui_read, frames_read, ghostVars, tkVars, applied, stop_seen >>

\* ... and the write; process_frame returns and the loop sleeps
CountStore(w) ==
    /\ pc[w] = "count_store"
    /\ frames_processed' = tmp[w] + 1
    /\ applied' = [applied EXCEPT !.frames = @ + 1]
    /\ Goto(w, "check")
    /\ frame' = [frame EXCEPT ![w] = 0]
    /\ idx' = [idx EXCEPT ![w] = 0]
    /\ tmp' = [tmp EXCEPT ![w] = 0]
    /\ UNCHANGED << uiVars, capVars, guiVars, stats, current_threat_level, aggVars,
                    ui_read, frames_read, ghostVars, tkVars, stop_seen >>

\* self.cap.release() after the loop, line 363 / 386
Release(w) ==
    /\ pc[w] = "release"
    /\ cap_state' = Released(cap)
    /\ Goto(w, "done")
    /\ UNCHANGED << uiVars, cap, source, guiVars, statVars, aggVars, frame, idx,
                    tmp,
                    ui_read, frames_read, ghostVars, tkVars, applied, stop_seen >>

Worker(w) ==
    \/ Open(w) \/ Check(w) \/ ReadNothing(w) \/ ReadFrame(w)
    \/ StatsLoad(w) \/ StatsStore(w) \/ Threat(w)
    \/ ZonesLoad(w) \/ ZonesStore(w) \/ Ambient(w) \/ History(w)
    \/ CountLoad(w) \/ CountStore(w) \/ Release(w)

Next ==
    \/ AiInitialized
    \/ StartMonitoring
    \/ StopMonitoring
    \/ ClearHeatmap
    \/ ExportHeatmap
    \/ \E w \in Workers : Worker(w)

Spec == Init /\ [][Next]_vars

(***************************************************************************)
(* SpecSession: the program with one session (no start after a stop begins *)
(* another), hence one worker, and with the "Update Heatmap" button.       *)
(***************************************************************************)
\* start_monitoring that begins no second session: a call after a stop ends
\* at lines 340-343
FirstStart == StartMonitoring /\ (Created = {} \/ pc' = pc)

NextSession ==
    \/ AiInitialized
    \/ FirstStart
    \/ StopMonitoring
    \/ ClearHeatmap
    \/ RefreshHeatmap
    \/ ViewExport
    \/ Worker(1)

SpecSession == Init /\ [][NextSession]_vars

(***************************************************************************)
(* SpecSource: one session whose worker is webcam_worker or file_worker,   *)
(* with the frame source followed: a camera that may miss a frame, or a    *)
(* video file of which the position is kept.                               *)
(***************************************************************************)
\* the frames of the video file, in order
VideoFile == << 3, 4 >>

\* frames the source delivers in a behaviour of SpecSource
MaxSourceFrames == 3

\* AfterNoFrame when a read without a frame ends the loop
AfterNoFrame_Leaves == "release"

\* where a worker is after a read that gave no frame: line 361 falls through
\* to the loop condition, line 381 continues to it
AfterNoFrame == "check"

\* cv2.VideoCapture(0) and its settings, lines 353-355
WebcamOpen(w) ==
    /\ pc[w] = "open"
    /\ cap' = w
    /\ cap_state' = [cap_state EXCEPT ![w] = "open"]
    /\ source' = [source EXCEPT ![w] = [kind |-> "webcam"]]
    /\ Goto(w, "check")
    /\ UNCHANGED << uiVars, guiVars, statVars, aggVars, frame, idx, tmp,
                    ui_read, frames_read, ghostVars, tkVars, applied, stop_seen >>

\* cv2.VideoCapture(self.file_path.get()), line 374
FileOpen(w) ==
    /\ pc[w] = "open"
    /\ cap' = w
    /\ cap_state' = [cap_state EXCEPT ![w] = "open"]
    /\ source' = [source EXCEPT ![w] = [kind |-> "file", pos |-> 0]]
    /\ Goto(w, "check")
    /\ UNCHANGED << uiVars, guiVars, statVars, aggVars, frame, idx, tmp,
                    ui_read, frames_read, ghostVars, tkVars, applied, stop_seen >>

\* process_frame up to line 424 on frame f: analyze_frame returned its
\* sample, or raised and line 438 logged it
Analysed(w, f) ==
    \/ /\ Goto(w, AfterFailure)
       /\ UNCHANGED << frame, idx >>
    \/ /\ frame' = [frame EXCEPT ![w] = f]
       /\ idx' = [idx EXCEPT ![w] = 1]
       /\ Goto(w, "stats_load")

\* webcam_worker, lines 358-361: the camera gives a frame, or ret is false
\* and the iteration does nothing
WebcamRead(w) ==
    /\ pc[w] = "read"
    /\ source[w].kind = "webcam"
    /\ \/ /\ cap_state[cap] = "open"
          /\ frames_read < MaxSourceFrames
          /\ frames_read' = frames_read + 1
          /\ \E f \in SpecFrames : Analysed(w, f)
       \/ /\ Goto(w, AfterNoFrame)
          /\ UNCHANGED << frame, idx, frames_read >>
    /\ UNCHANGED << uiVars, capVars, guiVars, statVars, aggVars, tmp,
                    ui_read, ghostVars, tkVars, applied, stop_seen >>

\* file_worker, lines 377-383: the file gives its next frame, or ret is
\* false (the end of the file, or a capture that was released) and line 380
\* sets the position to 0, which a released capture ignores
FileRead(w) ==
    /\ pc[w] = "read"
    /\ source[w].kind = "file"
    /\ IF cap_state[cap] = "open" /\ source[cap].pos < Len(VideoFile)
       THEN /\ frames_read < MaxSourceFrames
            /\ frames_read' = frames_read + 1
            /\ source' = [source EXCEPT ![cap].pos = @ + 1]
            /\ Analysed(w, VideoFile[source[cap].pos + 1])
       ELSE /\ source' = IF cap_state[cap] = "open"
                         THEN [source EXCEPT ![cap].pos = 0]
                         ELSE source
            /\ Goto(w, AfterNoFrame)
            /\ UNCHANGED << frame, idx, frames_read >>
    /\ UNCHANGED << uiVars, cap, cap_state, guiVars, statVars, aggVars, tmp,
                    ui_read, ghostVars, tkVars, applied, stop_seen >>

SourceWorker(w) ==
    \/ WebcamOpen(w) \/ FileOpen(w) \/ Check(w)
    \/ WebcamRead(w) \/ FileRead(w)
    \/ StatsLoad(w) \/ StatsStore(w) \/ Threat(w)
    \/ ZonesLoad(w) \/ ZonesStore(w) \/ Ambient(w) \/ History(w)
    \/ CountLoad(w) \/ CountStore(w) \/ Release(w)

NextSource ==
    \/ AiInitialized
    \/ FirstStart
    \/ StopMonitoring
    \/ SourceWorker(1)

SpecSource == Init /\ [][NextSource]_vars


(***************************************************************************)
(* SpecQueue: one session with what it shows.  root.after(0, f) adds f to  *)
(* Tk's timer handlers, and the main loop runs them on the Tk thread.  The *)
(* aggregates are written a method at a time: there is one worker, and the *)
(* commands read the fields only when they run.                            *)
(***************************************************************************)
\* the frames the source of SpecQueue delivers
QueueFrames == {2, 3, 4}

\* the thread that runs the Tk main loop, the workers being 1, 2, ...
TkThread == 0

\* photo, line 785, of the frame with sample f
Photo(f) == << "photo 1", "photo 2", "photo 3", "photo 4",
               "photo 5", "photo 6", "photo 7", "photo 8" >>[f]

\* root.after(0, command) called by a thread: the handler gets the next
\* "after#n" and waits behind those already there
After(q, by, command, arg) ==
    [next |-> q.next + 1,
     timers |-> Append(q.timers, [id |-> q.next, by |-> by,
                                  command |-> command, arg |-> arg])]

\* add_log, lines 823-834
AddLog(q, by, message) == After(q, by, "update_log", message)

\* the line update_statistics logs for a frame, lines 463-470, "" when none
SignificantEvent(sa) ==
    IF sa.women_in_danger > 0 THEN "CRITICAL"
    ELSE IF sa.surrounded_women > 0 THEN "ALERT"
    ELSE IF sa.distress_signals > 0 THEN "DISTRESS"
    ELSE IF sa.lone_women > 0 THEN "INFO"
    ELSE ""

\* Due when the main loop runs the newest handler first
Due_Newest(q) == Len(q.timers)

\* the handler the main loop runs next: of handlers due at once, the oldest
Due(q) == 1

\* the widgets after the Tk thread ran command c: update_log, lines 828-832,
\* update_ui_statistics, lines 475-510, _update_video_label, lines 791-794
RunCommand(wd, c) ==
    CASE c.command = "update_log" ->
            [wd EXCEPT !.log_text = Append(@, c.arg)]
      [] c.command = "update_ui_statistics" ->
            [wd EXCEPT !.threat_level_var = current_threat_level,
                       !.stat_labels = stats,
                       !.frames_label = frames_processed]
      [] c.command = "_update_video_label" ->
            [wd EXCEPT !.video_label = [image |-> c.arg, text |-> ""]]

\* the main loop runs a timer handler
TkAfter ==
    /\ after_queue.timers # << >>
    /\ LET i == Due(after_queue)
       IN /\ widgets' = RunCommand(widgets, after_queue.timers[i])
          /\ after_queue' =
                [after_queue EXCEPT !.timers =
                    SubSeq(@, 1, i - 1) \o SubSeq(@, i + 1, Len(@))]
    /\ UNCHANGED << uiVars, capVars, statVars, aggVars, workerVars, ui_read,
                    tkVars, frames_read, ghostVars, applied, stop_seen >>

\* ai_initialization_complete, lines 86-89, run by the main loop
QueueAiReady ==
    /\ ~ai_ready
    /\ ai_ready' = TRUE
    /\ current_status' = "AI System Ready - Select source and start monitoring"
    /\ after_queue' = AddLog(after_queue, TkThread, "AI system ready")
    /\ UNCHANGED << is_processing, start_btn, stop_btn, capVars, widgets,
                    statVars, aggVars, workerVars, ui_read, heatmap_canvas,
                    export_file, frames_read, ghostVars, applied, stop_seen >>

\* start_monitoring, lines 327-347, the first start of a ready system
QueueStart ==
    /\ start_btn = "normal"
    /\ ~AiNotReady
    /\ Created = {}
    /\ is_processing' = TRUE
    /\ start_btn' = "disabled"
    /\ stop_btn' = "normal"
    /\ StartThread
    /\ after_queue' = AddLog(after_queue, TkThread, "monitoring started")
    /\ current_status' = "Monitoring active - Analyzing for women's safety"
    /\ UNCHANGED << ai_ready, capVars, widgets, statVars, aggVars, ui_read,
                    heatmap_canvas, export_file, frames_read, ghostVars,
                    applied, stop_seen >>

\* stop_monitoring, lines 796-809
QueueStop ==
    /\ stop_btn = "normal"
    /\ is_processing' = FALSE
    /\ start_btn' = "normal"
    /\ stop_btn' = "disabled"
    /\ cap_state' = Released(cap)
    /\ widgets' = [widgets EXCEPT !.video_label =
                                      [image |-> "", text |-> "Monitoring Stopped"]]
    /\ after_queue' = AddLog(after_queue, TkThread, "monitoring stopped")
    /\ current_status' = "Monitoring stopped - Ready to resume"
    /\ stop_seen' = stop_seen \cup Alive
    /\ UNCHANGED << ai_ready, cap, source, statVars, aggVars, workerVars,
                    ui_read, heatmap_canvas, export_file, frames_read,
                    ghostVars, applied >>

\* self.cap.read() and process_frame up to line 424: no frame; or a frame
\* that analyze_frame takes; or one on which it raises, line 438
QueueRead(w) ==
    /\ pc[w] = "read"
    /\ \/ /\ Goto(w, "check")
          /\ UNCHANGED << frame, after_queue, frames_read >>
       \/ /\ cap_state[cap] = "open"
          /\ frames_read < MaxFrames
          /\ frames_read' = frames_read + 1
          /\ \/ \E f \in QueueFrames :
                  /\ frame' = [frame EXCEPT ![w] = f]
                  /\ Goto(w, "statistics")
                  /\ UNCHANGED after_queue
             \/ /\ after_queue' =
                      AddLog(after_queue, w, "Frame processing error")
                /\ Goto(w, "check")
                /\ UNCHANGED frame
    /\ UNCHANGED << uiVars, capVars, widgets, statVars, aggVars, idx, tmp,
                    ui_read, tkVars, ghostVars, applied, stop_seen >>

\* update_statistics, lines 440-473
QueueStatistics(w) ==
    /\ pc[w] = "statistics"
    /\ stats' = [f \in DOMAIN stats |->
                    stats[f] + StatIncrement(f, People(w), Sa(w))]
    /\ current_threat_level' = ThreatOf(Sa(w))
    /\ after_queue' =
          After(IF SignificantEvent(Sa(w)) # ""
                THEN AddLog(after_queue, w, SignificantEvent(Sa(w)))
                ELSE after_queue,
                w, "update_ui_statistics", "")
    /\ Goto(w, "risk_zones")
    /\ UNCHANGED << uiVars, capVars, widgets, frames_processed, aggVars,
                    frame, idx, tmp, ui_read, tkVars, frames_read, ghostVars,
                    applied, stop_seen >>

\* update_risk_zones, lines 512-558
QueueRiskZones(w) ==
    /\ pc[w] = "risk_zones"
    /\ risk_zones' =
          UpdateRiskZones(risk_zones, People(w), Sa(w), << DispH, DispW >>)
    /\ LET ev == RiskEvent(People(w), Sa(w), clock)
       IN /\ risk_history' = HistoryAppend(risk_history, ev)
          /\ appended' = Append(appended, ev)
    /\ clock' = clock + 1
    /\ Goto(w, "display")
    /\ UNCHANGED << uiVars, capVars, guiVars, statVars, frame, idx, tmp,
                    ui_read, tkVars, frames_read, ghostVars, applied,
                    stop_seen >>

\* update_display, lines 780-789, and line 435: the photo of the frame is
\* given to a handler, or making it raises and line 789 logs that
QueueDisplay(w) ==
    /\ pc[w] = "display"
    /\ \/ after_queue' =
             After(after_queue, w, "_update_video_label", Photo(frame[w]))
       \/ after_queue' = AddLog(after_queue, w, "Display update failed")
    /\ frames_processed' = frames_processed + 1
    /\ frame' = [frame EXCEPT ![w] = 0]
    /\ Goto(w, "check")
    /\ UNCHANGED << uiVars, capVars, widgets, stats, current_threat_level,
                    aggVars, idx, tmp, ui_read, tkVars, frames_read,
                    ghostVars, applied, stop_seen >>

NextQueue ==
    \/ QueueAiReady
    \/ QueueStart
    \/ QueueStop
    \/ TkAfter
    \/ Open(1) \/ Check(1) \/ QueueRead(1)
    \/ QueueStatistics(1) \/ QueueRiskZones(1) \/ QueueDisplay(1)
    \/ Release(1)

SpecQueue == Init /\ [][NextQueue]_vars



(***************************************************************************)
(* Claims about the program, checked under Spec.                           *)
(***************************************************************************)
LoopPcs == {"check", "read"} \cup FramePcs

\* C1: a frame's update is all or nothing: whenever no worker is inside
\* process_frame, the statistics, the risk-zone map, the event history and
\* the frame counter have received the updates of the same frames.
C1_FrameAtomic ==
    (\A w \in Workers : pc[w] \notin FramePcs) =>
        /\ applied.stats = applied.zones
        /\ applied.zones = applied.history
        /\ applied.history = applied.frames

\* C2: a read of the aggregates by a Tk handler sees them as they stood at a
\* frame boundary: no worker is inside a frame's update when it reads.
C2_SafeHandoff ==
    ui_read # NoRead => ui_read.during = {}

\* C3: a worker is in its loop only when the workers of all earlier sessions
\* have left theirs and released their frame source.
C3_SingleWorker ==
    \A v, w \in Workers :
        (v < w /\ pc[w] \in LoopPcs) => pc[v] = "done"

\* C4: once stop_monitoring has run, a worker that was alive then begins no
\* further iteration of its loop.
C4_StopAtBoundary ==
    [][\A w \in stop_seen : ~(pc[w] = "check" /\ pc'[w] = "read")]_vars

\* the cells whose entry a step creates or changes
Changed ==
    {c \in DOMAIN risk_zones' : c \notin DOMAIN risk_zones \/ risk_zones'[c] # risk_zones[c]}

\* C9: the pipeline writes only cells derived from the 640x480 processing
\* resolution: for a detection the cell of the centre of its box as the
\* perception service returned it, for the ambient broadcast the grid extent
\* of the 640x480 frame.
C9_ProcessingResolutionGrid ==
    [][\A w \in Workers :
        /\ (pc[w] \in {"zones_load", "zones_store"} /\ pc'[w] # pc[w]) =>
              Changed \subseteq {GridCell(FrameSamples[frame[w]].people[idx[w]])}
        /\ (pc[w] = "ambient" /\ pc'[w] # pc[w]) =>
              Changed \subseteq VisibleCells(ProcH, ProcW)]_vars

\* C10: no cumulative counter ever decreases, and the threat level changes
\* only to the value of the frame being applied.
C10_CountersMonotone ==
    [][/\ \A i \in 1..Len(StatFields) : stats'[StatFields[i]] >= stats[StatFields[i]]
       /\ current_threat_level' # current_threat_level =>
            \E w \in Workers : /\ pc[w] = "threat"
                               /\ current_threat_level' = ThreatOf(Sa(w))]_vars

\* a step of clear_heatmap: the map is emptied and no worker moves
IsClear == risk_zones' = EmptyMap /\ pc' = pc

\* C11: apart from clear_heatmap, no step removes a cell of the risk-zone map
\* or lowers its score, and no score is ever negative.
C11_MapMonotone ==
    [][/\ \A c \in DOMAIN risk_zones' : risk_zones'[c] >= 0
       /\ ~IsClear =>
            \A c \in DOMAIN risk_zones :
                c \in DOMAIN risk_zones' /\ risk_zones'[c] >= risk_zones[c]]_vars

\* a step of start_monitoring that begins a session after an earlier one
NewSession == ~is_processing /\ is_processing' /\ Created # {}

\* C20: a session started after an earlier one was stopped begins with an
\* empty risk-zone map, an empty event history, counters at zero and a frame
\* counter at zero.
C20_SessionBeginsEmpty ==
    [][NewSession =>
        /\ risk_zones' = EmptyMap
        /\ risk_history' = << >>
        /\ \A i \in 1 .. Len(StatFields) : stats'[StatFields[i]] = 0
        /\ frames_processed' = 0]_vars

\* what the frame worker w holds is to add to counter f: the detections of
\* the protected category, or the counts of its assessment
FrameCount(w, f) ==
    LET people == FrameSamples[frame[w]].people
        sa == FrameSamples[frame[w]].sa
    IN CASE f = "total_women_monitored" ->
                Cardinality({i \in DOMAIN people : people[i].gender = "woman"})
         [] f = "lone_women_incidents" -> sa.lone_women
         [] f = "surrounded_women_incidents" -> sa.surrounded_women
         [] f = "distress_signals_detected" -> sa.distress_signals
         [] f = "total_safety_alerts" ->
                sa.lone_women + sa.surrounded_women + sa.women_in_danger
                + sa.distress_signals

\* C22: every write of update_statistics to a counter leaves the counter at
\* what it held just before plus the frame's count for it, and leaves the
\* other counters alone, so that no increment is lost; and update_statistics
\* sets the threat level to the frame's level, SAFE when it carries none.
C22_StatisticsSum ==
    [][\A w \in Workers :
          /\ (pc[w] = "stats_store" /\ pc'[w] # pc[w]) =>
                stats' = [stats EXCEPT ![StatFields[idx[w]]] =
                             @ + FrameCount(w, StatFields[idx[w]])]
          /\ (pc[w] = "threat" /\ pc'[w] # pc[w]) =>
                current_threat_level' =
                    IF FrameSamples[frame[w]].sa.overall_threat_level \in Levels
                    THEN FrameSamples[frame[w]].sa.overall_threat_level
                    ELSE "SAFE"]_vars

\* C23: at every frame boundary (no worker inside process_frame's updates)
\* the number of events appended so far equals frames_processed, and the
\* history holds its events oldest first, in the order they were appended.
C23_OneEventPerFrame ==
    /\ (\A w \in Workers : pc[w] \notin FramePcs) =>
            applied.history = frames_processed
    /\ \A i \in 1 .. Len(risk_history) - 1 :
            risk_history[i].timestamp < risk_history[i + 1].timestamp


(***************************************************************************)
(* Claims about the heat map and the export, checked under SpecViews.      *)
(***************************************************************************)
\* a step of clear_heatmap on aggregates that hold something
IsAggClear == appended # << >> /\ appended' = << >>

\* a step of update_heatmap as the command of its button
IsRefresh == ui_read = NoRead /\ ui_read' # NoRead /\ ui_read'.handler = "update_heatmap"

\* the canvas shows the placeholder, no maximum was computed, no cell drawn
NoData(canvas) ==
    /\ canvas.text = "No risk data available"
    /\ canvas.max_risk = << >>
    /\ canvas.cells = NoItems
    /\ canvas.error = ""

IsExport == ui_read = NoRead /\ ui_read' # NoRead /\ ui_read'.handler = "export_heatmap"

CommaAt(s) == CHOOSE i \in 1..Len(s) : s[i] = ","

DigitValue(ch) == (CHOOSE i \in 1..Len(DecimalDigits) : DecimalDigits[i] = ch) - 1

RECURSIVE ParseDigits(_)
ParseDigits(s) ==
    IF Len(s) = 0 THEN 0
    ELSE 10 * ParseDigits(SubSeq(s, 1, Len(s) - 1)) + DigitValue(s[Len(s)])

ParseInt(s) == IF s[1] = "-" THEN -ParseDigits(Tail(s)) ELSE ParseDigits(s)

\* "<gx>,<gy>" read back as a pair of integers
ParseKey(s) ==
    << ParseInt(SubSeq(s, 1, CommaAt(s) - 1)),
       ParseInt(SubSeq(s, CommaAt(s) + 1, Len(s))) >>

\* C14: the risk_zones section of a saved document has one entry per entry
\* of the map, whether or not the cell is in the viewport, and its keys read
\* back as integer pairs give the cells and scores of the map at export time.
C14_ExportRoundTrip ==
    [][(IsExport /\ ui_read'.result = "saved") =>
        /\ Cardinality(DOMAIN export_file'.document.risk_zones)
               = Cardinality(DOMAIN risk_zones)
        /\ {ParseKey(s) : s \in DOMAIN export_file'.document.risk_zones}
               = DOMAIN risk_zones
        /\ \A s \in DOMAIN export_file'.document.risk_zones :
               export_file'.document.risk_zones[s] = risk_zones[ParseKey(s)]]_vars

\* a saved document with a cell left of the frame, a cell beyond the
\* viewport and the cells of a broadcast
C14_Witness ==
    /\ export_file.saved
    /\ ZoneKey(<<-2, 3>>) \in DOMAIN export_file.document.risk_zones
    /\ ZoneKey(<<21, 3>>) \in DOMAIN export_file.document.risk_zones
    /\ Cardinality(DOMAIN export_file.document.risk_zones) > 192

\* C18: update_heatmap draws only cells of the map that lie in the window
\* 0 <= x < 20, 0 <= y < 15; every other entry of the map is skipped.
C18_BoundedWindow ==
    [][IsRefresh =>
        DOMAIN heatmap_canvas'.cells \subseteq
            {c \in DOMAIN risk_zones :
                /\ 0 <= c[1] /\ c[1] < ViewportW
                /\ 0 <= c[2] /\ c[2] < ViewportH}]_vars

\* a step of generate_safety_report that showed its report
IsReport ==
    /\ ui_read = NoRead
    /\ ui_read' # NoRead
    /\ ui_read'.handler = "generate_safety_report"
    /\ ui_read'.result = "shown"

RECURSIVE ScoreTotal(_, _)
\* the scores of z added up score by score, from v down to 1
ScoreTotal(z, v) ==
    IF v <= 0 THEN 0
    ELSE v * Cardinality({c \in DOMAIN z : z[c] = v}) + ScoreTotal(z, v - 1)

\* C21: the report shown has high_risk_zones equal to the number of cells of
\* the map whose score exceeds 10 and average_risk_level equal to the sum of
\* the scores over the number of cells, 0 with no division for an empty map;
\* generating it changes no aggregate.
C21_ReportRiskAnalysis ==
    [][IsReport =>
        /\ ui_read'.report.risk_analysis.high_risk_zones
              = Cardinality({c \in DOMAIN risk_zones : risk_zones[c] > 10})
        /\ ui_read'.report.risk_analysis.average_risk_level
              = IF DOMAIN risk_zones = {} THEN << 0, 1 >>
                ELSE << ScoreTotal(risk_zones, MaxRisk(risk_zones)),
                        Cardinality(DOMAIN risk_zones) >>
        /\ UNCHANGED << risk_zones, risk_history, stats,
                        current_threat_level, frames_processed >>]_vars

\* a report of a map with a cell at exactly 10, a cell above 10 and cells
\* below
C21_Witness ==
    /\ ui_read # NoRead
    /\ ui_read.handler = "generate_safety_report"
    /\ ui_read.result = "shown"
    /\ \E c \in DOMAIN risk_zones : risk_zones[c] = 10
    /\ ui_read.report.risk_analysis.high_risk_zones > 0
    /\ ui_read.report.risk_analysis.high_risk_zones
          < ui_read.report.risk_analysis.total_risk_zones


(***************************************************************************)
(* Claims about the gradient, checked under SpecGradient.                  *)
(***************************************************************************)
\* channel i (1 red, 2 green, 3 blue) of a colour
Channel(colour, i) == 16 * colour[2 * i - 1] + colour[2 * i]

Abs(n) == IF n < 0 THEN -n ELSE n

\* C17: two normalized risks 0.0002 apart get colours whose channels differ
\* by a rounding-level amount, also across the boundaries 0.3 and 0.7.
C17_GradientContinuity ==
    {<<0, 0>>, <<1, 0>>} \subseteq DOMAIN heatmap_canvas.cells =>
        \A i \in 1..3 :
            Abs(Channel(heatmap_canvas.cells[<<0, 0>>].fill, i)
                - Channel(heatmap_canvas.cells[<<1, 0>>].fill, i)) <= 2


(***************************************************************************)
(* Claims about one session, checked under SpecSession.                    *)
(***************************************************************************)
\* C13: export_heatmap, whether the file is saved, the dialog cancelled or
\* the writing fails, leaves the risk-zone map, the event history, the
\* counters, the threat level and the frame counter as they were; a failure
\* is reported in a message box and writes no file.
C13_ExportReadOnly ==
    [][IsExport =>
        /\ UNCHANGED << risk_zones, risk_history, stats,
                        current_threat_level, frames_processed >>
        /\ ui_read'.result = "failed" => ui_read'.message = "Error"
        /\ ui_read'.result # "saved" => export_file' = export_file]_vars

\* an export that failed, on aggregates that hold a frame
C13_Witness ==
    /\ ui_read # NoRead
    /\ ui_read.handler = "export_heatmap"
    /\ ui_read.result = "failed"
    /\ risk_history # << >>
    /\ stats["total_women_monitored"] > 0
    /\ frames_processed > 0

\* C16: update_heatmap never divides by zero: on an empty map it computes no
\* maximum, and on any other map every cell drawn has a score between 0 and
\* the maximum, the maximum being positive.
C16_NormalizationBounds ==
    [][IsRefresh =>
        /\ heatmap_canvas'.error = ""
        /\ risk_zones = EmptyMap => heatmap_canvas'.max_risk = << >>
        /\ risk_zones # EmptyMap =>
              \A c \in DOMAIN heatmap_canvas'.cells :
                  /\ 0 <= risk_zones[c]
                  /\ risk_zones[c] <= heatmap_canvas'.max_risk[1]]_vars


\* a call of start_monitoring is possible and the service is not ready
StartRefused == start_btn = "normal" /\ ~ai_ready

\* a step that creates no worker and is not a worker's
NoThread == pc' = pc

\* C15: while the perception service is not ready no step, a start included,
\* changes is_processing, the buttons, the workers, the frame source, the
\* aggregates or the counters; and is_processing is true after a step that
\* started no worker only if it was true before: a start that is rejected,
\* for a missing file path too, leaves is_processing false and no new worker.
C15_RejectedStart ==
    [][/\ StartRefused =>
            UNCHANGED << is_processing, start_btn, stop_btn, pc, cap,
                         cap_state, risk_zones, risk_history, stats,
                         current_threat_level, frames_processed >>
       /\ (NoThread /\ start_btn = "normal") => ~is_processing']_vars

\* the service is ready, a start was rejected for its missing file path, and
\* there is no session: the status line is that of stop_monitoring, which
\* the rejected start called, and no worker was ever created
C15_Witness ==
    /\ ai_ready
    /\ Created = {}
    /\ current_status = "Monitoring stopped - Ready to resume"
    /\ ~is_processing
    /\ start_btn = "normal"
    /\ cap = 0

\* the step in which worker w's frame failed: the read frame was not
\* analysed, or the update stopped after the statistics
FrameFailed(w) ==
    \/ pc[w] = "read" /\ frames_read' # frames_read /\ pc'[w] # "stats_load"
    \/ pc[w] = "threat" /\ pc'[w] \notin {"threat", "zones_load", "ambient"}

\* C19: after a frame failed the worker is at the head of its loop, and a
\* worker leaves its loop only from the head, having read is_processing
\* false: no failure of a frame ends the worker.
C19_FailureContinues ==
    [][\A w \in Workers :
          /\ FrameFailed(w) => pc'[w] = "check"
          /\ (pc[w] \in LoopPcs /\ pc'[w] \notin LoopPcs) =>
                (pc[w] = "check" /\ ~is_processing)]_vars

\* the first frame failed before anything of it was applied, no stop was
\* requested, and the worker is applying the next frame
C19_Witness ==
    /\ is_processing
    /\ frames_read = 2
    /\ applied.stats = 0
    /\ frames_processed = 0
    /\ pc[1] = "stats_store"
\* C26: every entry of the risk-zone map holds a score of at least 1, so
\* that a map that is not empty has a maximum of at least 1.
C26_EntriesPositive ==
    \A c \in DOMAIN risk_zones : risk_zones[c] >= 1

\* a step in which worker w reads from the frame source
SourceRead(w) == pc[w] = "read" /\ pc'[w] # "read"

\* a step that releases the frame source: stop_monitoring's, or a worker's
\* after its loop
SourceRelease ==
    \/ is_processing /\ ~is_processing'
    \/ \E w \in Workers : pc[w] = "release" /\ pc'[w] = "done"

\* C27: a worker reads only from a frame source that is open, and a frame
\* source is released only when open, hence once.
C27_ReadBeforeRelease ==
    [][/\ (\E w \in Workers : SourceRead(w)) => cap_state[cap] = "open"
       /\ (SourceRelease /\ cap # 0) => cap_state[cap] = "open"]_vars

RECURSIVE AlertSum(_, _)
\* the alert counts of the events h[i..] added up
AlertSum(h, i) ==
    IF i > Len(h) THEN 0 ELSE h[i].safety_alerts + AlertSum(h, i + 1)

\* C28: at a frame boundary, when no event was evicted and nothing cleared,
\* the alert counts of the events in the history add up to the safety-alert
\* counter less the distress-signal counter.
C28_AlertsExcludeDistress ==
    (/\ \A w \in Workers : pc[w] \notin FramePcs
     /\ Len(appended) = applied.history
     /\ Len(appended) <= MaxHistory) =>
        AlertSum(risk_history, 1)
            = stats["total_safety_alerts"] - stats["distress_signals_detected"]


(***************************************************************************)
(* Claims about the frame source, checked under SpecSource.                *)
(***************************************************************************)
\* the step in which worker w's read gave no frame
NoFrame(w) == pc[w] = "read" /\ pc'[w] # "read" /\ frames_read' = frames_read

\* C24: a read that gives no frame leaves the worker at its loop condition
\* with the session as it was, and at the end of an open file it sets the
\* file back to its first frame, which the next read then delivers; a worker
\* leaves its loop only from the loop condition, having read is_processing
\* false.
C24_SourceNeverEnds ==
    [][\A w \in Workers :
          /\ NoFrame(w) =>
                /\ pc'[w] = "check"
                /\ UNCHANGED << is_processing, cap, cap_state >>
                /\ (source[w].kind = "file" /\ cap_state[cap] = "open") =>
                      source'[cap].pos = 0
          /\ (/\ pc[w] = "read"
              /\ pc'[w] = "stats_load"
              /\ source[w].kind = "file"
              /\ source[cap].pos = 0) => frame'[w] = VideoFile[1]
          /\ (pc[w] \in LoopPcs /\ pc'[w] \notin LoopPcs) =>
                (pc[w] = "check" /\ ~is_processing)]_vars

\* the file was read to its end and set back, no stop was requested, and the
\* worker is applying the first frame for the second time
C24_Witness ==
    /\ is_processing
    /\ source[1].kind = "file"
    /\ source[1].pos = 1
    /\ frames_read = Len(VideoFile) + 1
    /\ pc[1] = "stats_store"
    /\ frame[1] = VideoFile[1]


(***************************************************************************)
(* Claims about what the session shows, checked under SpecQueue.           *)
(***************************************************************************)
\* a step of the thread of worker w
WorkerStep(w) == pc[w] # "idle" /\ pc'[w] # pc[w]

\* q without its i-th element
Without(q, i) == SubSeq(q, 1, i - 1) \o SubSeq(q, i + 1, Len(q))

\* C25: no step of a worker changes a widget: a worker only adds handlers,
\* its own, behind those waiting - after update_statistics the handler that
\* refreshes the counters and the threat indicator, after update_display the
\* handler of the rendered frame or a log line; and when the Tk thread runs
\* a handler, no handler the same thread added earlier is still waiting.
C25_DeferredEffects ==
    [][/\ \A w \in Workers :
            WorkerStep(w) =>
                /\ widgets' = widgets
                /\ Len(after_queue'.timers) >= Len(after_queue.timers)
                /\ SubSeq(after_queue'.timers, 1, Len(after_queue.timers))
                      = after_queue.timers
                /\ \A j \in Len(after_queue.timers) + 1
                              .. Len(after_queue'.timers) :
                      after_queue'.timers[j].by = w
                /\ pc[w] = "statistics" =>
                      /\ after_queue'.timers # after_queue.timers
                      /\ after_queue'.timers[Len(after_queue'.timers)].command
                            = "update_ui_statistics"
                /\ pc[w] = "display" =>
                      /\ Len(after_queue'.timers) = Len(after_queue.timers) + 1
                      /\ after_queue'.timers[Len(after_queue'.timers)].command
                            \in {"_update_video_label", "update_log"}
       /\ Len(after_queue'.timers) < Len(after_queue.timers) =>
            \E i \in 1 .. Len(after_queue.timers) :
                /\ after_queue'.timers = Without(after_queue.timers, i)
                /\ \A j \in 1 .. Len(after_queue.timers) :
                      after_queue.timers[j].by = after_queue.timers[i].by =>
                          after_queue.timers[i].id <= after_queue.timers[j].id]_vars

\* every handler of a frame with women in danger has run: its log line, its
\* counters and threat level and its picture are shown
C25_Witness ==
    /\ after_queue.timers = << >>
    /\ \E i \in 1 .. Len(widgets.log_text) : widgets.log_text[i] = "CRITICAL"
    /\ widgets.threat_level_var = "CRITICAL"
    /\ widgets.stat_labels["total_safety_alerts"] > 0
    /\ widgets.video_label.image = Photo(2)

=============================================================================
